---------------------------- MODULE Spec2Model ----------------------------
(***************************************************************************)
(* A model of resources/js/Pages/error-handling.js: the "Error handling"   *)
(* documentation page.  The module models                                  *)
(*   - the module-level meta object and the Page component (a function of  *)
(*     no arguments returning a React element tree),                       *)
(*   - Page.layout,                                                        *)
(*   - the tagged template dedent`...` that produces every example's code  *)
(*     text, and                                                           *)
(*   - the behaviour of the code the examples document: the Laravel        *)
(*     exception handler and the four Error page components.               *)
(*                                                                         *)
(* Text that the model inspects character by character is a sequence of    *)
(* one-character strings.  LF is the line feed.                            *)
(***************************************************************************)
EXTENDS Integers, Sequences, FiniteSets, TLC

LF == <<"\n">>

\* n spaces of indentation, as they stand in the source file.
Sp(n) == [i \in 1..n |-> " "]

Max(S) == CHOOSE m \in S : \A e \in S : e <= m

Min(S) == CHOOSE m \in S : \A e \in S : m <= e

\* The sequence s without the elements at the positions in D.
DropIndices(s, D) ==
  LET marked == [i \in 1..Len(s) |-> <<s[i], i \in D>>]
      kept   == SelectSeq(marked, LAMBDA m : ~m[2])
  IN  [i \in 1..Len(kept) |-> kept[i][1]]

(***************************************************************************)
(* Template literals.  A tagged template hands its tag the cooked strings: *)
(* every escape sequence of the raw text replaced by the character it      *)
(* names.  A backslash starts an escape when an even number of backslashes *)
(* stands immediately before it.  The escapes modelled are \n, \t, \r and  *)
(* the ones that name the character itself (\\ among them); the page uses  *)
(* only \n and \\.  No template of the page has a ${...} substitution, so  *)
(* each has exactly one string.                                            *)
(***************************************************************************)
EscapeStart(raw, i) ==
  /\ raw[i] = "\\"
  /\ LET before == Max({j \in 0..(i - 1) : j = 0 \/ raw[j] # "\\"})
     IN  (i - 1 - before) % 2 = 0

CookChar(c) ==
  CASE c = "n" -> "\n"
    [] c = "t" -> "\t"
    [] c = "r" -> "\r"
    [] OTHER   -> c

Cook(raw) ==
  LET starts == {i \in 1..Len(raw) : EscapeStart(raw, i)}
      cooked == [i \in 1..Len(raw) |->
                   IF (i - 1) \in starts THEN CookChar(raw[i]) ELSE raw[i]]
  IN  DropIndices(cooked, starts)

(***************************************************************************)
(* dedent (the default export of dedent-js), called as a template tag with *)
(* one string and no values.                                               *)
(***************************************************************************)
WS == {" ", "\t"}

\* The number of tabs and spaces that directly follow position i of s.
IndentAfter(s, i) ==
  LET stop == Min({j \in (i + 1)..(Len(s) + 1) : j = Len(s) + 1 \/ s[j] \notin WS})
  IN  stop - i - 1

LineFeeds(s) == {i \in 1..Len(s) : s[i] = "\n"}

\* 1. Remove trailing whitespace: replace(/\r?\n([\t ]*)$/, '').
RemoveTrailing(s) ==
  IF LineFeeds(s) = {} THEN s
  ELSE LET last == Max(LineFeeds(s))
       IN  IF IndentAfter(s, last) = Len(s) - last
           THEN SubSeq(s, 1, IF last > 1 /\ s[last - 1] = "\r" THEN last - 2 ELSE last - 1)
           ELSE s

\* 2. The matches of /\n[\t ]+/g: the line feeds followed by indentation.
IndentedBreaks(s) == {i \in LineFeeds(s) : IndentAfter(s, i) > 0}

\* 3. Remove the common indentation: replace(/\n[\t ]{size}/g, '\n'),
\*    size the least indentation among the matches of step 2.
RemoveIndentation(s) ==
  IF IndentedBreaks(s) = {} THEN s
  ELSE LET size == Min({IndentAfter(s, i) : i \in IndentedBreaks(s)})
           hit  == {i \in LineFeeds(s) : IndentAfter(s, i) >= size}
       IN  DropIndices(s, {j \in 1..Len(s) : \E i \in hit : i < j /\ j <= i + size})

\* 4. Remove leading whitespace: replace(/^\r?\n/, '').
RemoveLeading(s) ==
  IF Len(s) >= 1 /\ s[1] = "\n" THEN SubSeq(s, 2, Len(s))
  ELSE IF Len(s) >= 2 /\ s[1] = "\r" /\ s[2] = "\n" THEN SubSeq(s, 3, Len(s))
  ELSE s

dedent(s) == RemoveLeading(RemoveIndentation(RemoveTrailing(s)))

\* dedent`...`: the tag applied to the cooked string of the template.
Tagged(raw) == dedent(Cook(raw))

(***************************************************************************)
(* The text between the backticks of each dedent`...` template, exactly as *)
(* written in the source file (raw: escapes not yet processed).  The       *)
(* number in front of a row is the source line it copies.                  *)
(***************************************************************************)
LaravelSource ==
     (*  50 *) LF
  \o (*  51 *) Sp(14) \o <<"u","s","e"," ","T","h","r","o","w","a","b","l","e",";">> \o LF
  \o (*  52 *) Sp(14) \o <<"u","s","e"," ","I","n","e","r","t","i","a","\\","\\","I","n","e","r","t","i","a",";","\\","n">> \o LF
  \o (*  53 *) Sp(14) \o <<"/","*","*">> \o LF
  \o (*  54 *) Sp(15) \o <<"*"," ","P","r","e","p","a","r","e"," ","e","x","c","e","p","t","i","o","n"," ","f","o","r"," ","r","e","n","d","e","r","i","n","g",".">> \o LF
  \o (*  55 *) Sp(15) \o <<"*">> \o LF
  \o (*  56 *) Sp(15) \o <<"*"," ","@","p","a","r","a","m"," "," ","\\","\\","T","h","r","o","w","a","b","l","e"," "," ","$","e">> \o LF
  \o (*  57 *) Sp(15) \o <<"*"," ","@","r","e","t","u","r","n"," ","\\","\\","T","h","r","o","w","a","b","l","e">> \o LF
  \o (*  58 *) Sp(15) \o <<"*","/">> \o LF
  \o (*  59 *) Sp(14) \o <<"p","u","b","l","i","c"," ","f","u","n","c","t","i","o","n"," ","r","e","n","d","e","r","(","$","r","e","q","u","e","s","t",","," ","T","h","r","o","w","a","b","l","e"," ","$","e",")">> \o LF
  \o (*  60 *) Sp(14) \o <<"{">> \o LF
  \o (*  61 *) Sp(18) \o <<"$","r","e","s","p","o","n","s","e"," ","="," ","p","a","r","e","n","t",":",":","r","e","n","d","e","r","(","$","r","e","q","u","e","s","t",","," ","$","e",")",";","\\","n">> \o LF
  \o (*  62 *) Sp(18) \o <<"i","f"," ","(","!","a","p","p","(",")","-",">","e","n","v","i","r","o","n","m","e","n","t","(","[","'","l","o","c","a","l","'",","," ","'","t","e","s","t","i","n","g","'","]",")"," ","&","&"," ","i","n","_","a","r","r","a","y","(","$","r","e","s","p","o","n","s","e","-",">","g","e","t","S","t","a","t","u","s","C","o","d","e","(",")",","," ","[","5","0","0",","," ","5","0","3",","," ","4","0","4",","," ","4","0","3","]",")",")"," ","{">> \o LF
  \o (*  63 *) Sp(22) \o <<"r","e","t","u","r","n"," ","I","n","e","r","t","i","a",":",":","r","e","n","d","e","r","(","'","E","r","r","o","r","'",","," ","[","'","s","t","a","t","u","s","'"," ","=",">"," ","$","r","e","s","p","o","n","s","e","-",">","g","e","t","S","t","a","t","u","s","C","o","d","e","(",")","]",")">> \o LF
  \o (*  64 *) Sp(26) \o <<"-",">","t","o","R","e","s","p","o","n","s","e","(","$","r","e","q","u","e","s","t",")">> \o LF
  \o (*  65 *) Sp(26) \o <<"-",">","s","e","t","S","t","a","t","u","s","C","o","d","e","(","$","r","e","s","p","o","n","s","e","-",">","g","e","t","S","t","a","t","u","s","C","o","d","e","(",")",")",";">> \o LF
  \o (*  66 *) Sp(18) \o <<"}"," ","e","l","s","e"," ","i","f"," ","(","$","r","e","s","p","o","n","s","e","-",">","g","e","t","S","t","a","t","u","s","C","o","d","e","(",")"," ","=","=","="," ","4","1","9",")"," ","{">> \o LF
  \o (*  67 *) Sp(22) \o <<"r","e","t","u","r","n"," ","b","a","c","k","(",")","-",">","w","i","t","h","(","[">> \o LF
  \o (*  68 *) Sp(26) \o <<"'","m","e","s","s","a","g","e","'"," ","=",">"," ","'","T","h","e"," ","p","a","g","e"," ","e","x","p","i","r","e","d",","," ","p","l","e","a","s","e"," ","t","r","y"," ","a","g","a","i","n",".","'",",">> \o LF
  \o (*  69 *) Sp(22) \o <<"]",")",";">> \o LF
  \o (*  70 *) Sp(18) \o <<"}","\\","n">> \o LF
  \o (*  71 *) Sp(18) \o <<"r","e","t","u","r","n"," ","$","r","e","s","p","o","n","s","e",";">> \o LF
  \o (*  72 *) Sp(14) \o <<"}">> \o LF
  \o (*  73 *) Sp(12)

RailsSource ==
     (*  78 *) LF
  \o (*  79 *) Sp(14) \o <<"#"," ","t","o","d","o">> \o LF
  \o (*  80 *) Sp(12)

Vue2Source ==
     (*  93 *) LF
  \o (*  94 *) Sp(14) \o <<"<","t","e","m","p","l","a","t","e",">">> \o LF
  \o (*  95 *) Sp(16) \o <<"<","d","i","v",">">> \o LF
  \o (*  96 *) Sp(18) \o <<"<","H","1",">","{","{"," ","t","i","t","l","e"," ","}","}","<","/","H","1",">">> \o LF
  \o (*  97 *) Sp(18) \o <<"<","d","i","v",">","{","{"," ","d","e","s","c","r","i","p","t","i","o","n"," ","}","}","<","/","d","i","v",">">> \o LF
  \o (*  98 *) Sp(16) \o <<"<","/","d","i","v",">">> \o LF
  \o (*  99 *) Sp(14) \o <<"<","/","t","e","m","p","l","a","t","e",">","\\","n">> \o LF
  \o (* 100 *) Sp(14) \o <<"<","s","c","r","i","p","t",">">> \o LF
  \o (* 101 *) Sp(14) \o <<"e","x","p","o","r","t"," ","d","e","f","a","u","l","t"," ","{">> \o LF
  \o (* 102 *) Sp(16) \o <<"p","r","o","p","s",":"," ","{">> \o LF
  \o (* 103 *) Sp(18) \o <<"s","t","a","t","u","s",":"," ","N","u","m","b","e","r",",">> \o LF
  \o (* 104 *) Sp(16) \o <<"}",",">> \o LF
  \o (* 105 *) Sp(16) \o <<"c","o","m","p","u","t","e","d",":"," ","{">> \o LF
  \o (* 106 *) Sp(18) \o <<"t","i","t","l","e","(",")"," ","{">> \o LF
  \o (* 107 *) Sp(20) \o <<"r","e","t","u","r","n"," ","{">> \o LF
  \o (* 108 *) Sp(22) \o <<"5","0","3",":"," ","'","5","0","3",":"," ","S","e","r","v","i","c","e"," ","U","n","a","v","a","i","l","a","b","l","e","'",",">> \o LF
  \o (* 109 *) Sp(22) \o <<"5","0","0",":"," ","'","5","0","0",":"," ","S","e","r","v","e","r"," ","E","r","r","o","r","'",",">> \o LF
  \o (* 110 *) Sp(22) \o <<"4","0","4",":"," ","'","4","0","4",":"," ","P","a","g","e"," ","N","o","t"," ","F","o","u","n","d","'",",">> \o LF
  \o (* 111 *) Sp(22) \o <<"4","0","3",":"," ","'","4","0","3",":"," ","F","o","r","b","i","d","d","e","n","'",",">> \o LF
  \o (* 112 *) Sp(20) \o <<"}","[","t","h","i","s",".","s","t","a","t","u","s","]">> \o LF
  \o (* 113 *) Sp(18) \o <<"}",",">> \o LF
  \o (* 114 *) Sp(18) \o <<"d","e","s","c","r","i","p","t","i","o","n","(",")"," ","{">> \o LF
  \o (* 115 *) Sp(20) \o <<"r","e","t","u","r","n"," ","{">> \o LF
  \o (* 116 *) Sp(22) \o <<"5","0","3",":"," ","'","S","o","r","r","y",","," ","w","e"," ","a","r","e"," ","d","o","i","n","g"," ","s","o","m","e"," ","m","a","i","n","t","e","n","a","n","c","e","."," ","P","l","e","a","s","e"," ","c","h","e","c","k"," ","b","a","c","k"," ","s","o","o","n",".","'",",">> \o LF
  \o (* 117 *) Sp(22) \o <<"5","0","0",":"," ","'","W","h","o","o","p","s",","," ","s","o","m","e","t","h","i","n","g"," ","w","e","n","t"," ","w","r","o","n","g"," ","o","n"," ","o","u","r"," ","s","e","r","v","e","r","s",".","'",",">> \o LF
  \o (* 118 *) Sp(22) \o <<"4","0","4",":"," ","'","S","o","r","r","y",","," ","t","h","e"," ","p","a","g","e"," ","y","o","u"," ","a","r","e"," ","l","o","o","k","i","n","g"," ","f","o","r"," ","c","o","u","l","d"," ","n","o","t"," ","b","e"," ","f","o","u","n","d",".","'",",">> \o LF
  \o (* 119 *) Sp(22) \o <<"4","0","3",":"," ","'","S","o","r","r","y",","," ","y","o","u"," ","a","r","e"," ","f","o","r","b","i","d","d","e","n"," ","f","r","o","m"," ","a","c","c","e","s","s","i","n","g"," ","t","h","i","s"," ","p","a","g","e",".","'",",">> \o LF
  \o (* 120 *) Sp(20) \o <<"}","[","t","h","i","s",".","s","t","a","t","u","s","]">> \o LF
  \o (* 121 *) Sp(18) \o <<"}",",">> \o LF
  \o (* 122 *) Sp(16) \o <<"}",",">> \o LF
  \o (* 123 *) Sp(14) \o <<"}">> \o LF
  \o (* 124 *) Sp(14) \o <<"<","/","s","c","r","i","p","t",">">> \o LF
  \o (* 125 *) Sp(12)

Vue3Source ==
     (* 130 *) LF
  \o (* 131 *) Sp(14) \o <<"<","t","e","m","p","l","a","t","e",">">> \o LF
  \o (* 132 *) Sp(16) \o <<"<","d","i","v",">">> \o LF
  \o (* 133 *) Sp(18) \o <<"<","H","1",">","{","{"," ","t","i","t","l","e"," ","}","}","<","/","H","1",">">> \o LF
  \o (* 134 *) Sp(18) \o <<"<","d","i","v",">","{","{"," ","d","e","s","c","r","i","p","t","i","o","n"," ","}","}","<","/","d","i","v",">">> \o LF
  \o (* 135 *) Sp(16) \o <<"<","/","d","i","v",">">> \o LF
  \o (* 136 *) Sp(14) \o <<"<","/","t","e","m","p","l","a","t","e",">","\\","n">> \o LF
  \o (* 137 *) Sp(14) \o <<"<","s","c","r","i","p","t",">">> \o LF
  \o (* 138 *) Sp(14) \o <<"e","x","p","o","r","t"," ","d","e","f","a","u","l","t"," ","{">> \o LF
  \o (* 139 *) Sp(16) \o <<"p","r","o","p","s",":"," ","{">> \o LF
  \o (* 140 *) Sp(18) \o <<"s","t","a","t","u","s",":"," ","N","u","m","b","e","r",",">> \o LF
  \o (* 141 *) Sp(16) \o <<"}",",">> \o LF
  \o (* 142 *) Sp(16) \o <<"c","o","m","p","u","t","e","d",":"," ","{">> \o LF
  \o (* 143 *) Sp(18) \o <<"t","i","t","l","e","(",")"," ","{">> \o LF
  \o (* 144 *) Sp(20) \o <<"r","e","t","u","r","n"," ","{">> \o LF
  \o (* 145 *) Sp(22) \o <<"5","0","3",":"," ","'","5","0","3",":"," ","S","e","r","v","i","c","e"," ","U","n","a","v","a","i","l","a","b","l","e","'",",">> \o LF
  \o (* 146 *) Sp(22) \o <<"5","0","0",":"," ","'","5","0","0",":"," ","S","e","r","v","e","r"," ","E","r","r","o","r","'",",">> \o LF
  \o (* 147 *) Sp(22) \o <<"4","0","4",":"," ","'","4","0","4",":"," ","P","a","g","e"," ","N","o","t"," ","F","o","u","n","d","'",",">> \o LF
  \o (* 148 *) Sp(22) \o <<"4","0","3",":"," ","'","4","0","3",":"," ","F","o","r","b","i","d","d","e","n","'",",">> \o LF
  \o (* 149 *) Sp(20) \o <<"}","[","t","h","i","s",".","s","t","a","t","u","s","]">> \o LF
  \o (* 150 *) Sp(18) \o <<"}",",">> \o LF
  \o (* 151 *) Sp(18) \o <<"d","e","s","c","r","i","p","t","i","o","n","(",")"," ","{">> \o LF
  \o (* 152 *) Sp(20) \o <<"r","e","t","u","r","n"," ","{">> \o LF
  \o (* 153 *) Sp(22) \o <<"5","0","3",":"," ","'","S","o","r","r","y",","," ","w","e"," ","a","r","e"," ","d","o","i","n","g"," ","s","o","m","e"," ","m","a","i","n","t","e","n","a","n","c","e","."," ","P","l","e","a","s","e"," ","c","h","e","c","k"," ","b","a","c","k"," ","s","o","o","n",".","'",",">> \o LF
  \o (* 154 *) Sp(22) \o <<"5","0","0",":"," ","'","W","h","o","o","p","s",","," ","s","o","m","e","t","h","i","n","g"," ","w","e","n","t"," ","w","r","o","n","g"," ","o","n"," ","o","u","r"," ","s","e","r","v","e","r","s",".","'",",">> \o LF
  \o (* 155 *) Sp(22) \o <<"4","0","4",":"," ","'","S","o","r","r","y",","," ","t","h","e"," ","p","a","g","e"," ","y","o","u"," ","a","r","e"," ","l","o","o","k","i","n","g"," ","f","o","r"," ","c","o","u","l","d"," ","n","o","t"," ","b","e"," ","f","o","u","n","d",".","'",",">> \o LF
  \o (* 156 *) Sp(22) \o <<"4","0","3",":"," ","'","S","o","r","r","y",","," ","y","o","u"," ","a","r","e"," ","f","o","r","b","i","d","d","e","n"," ","f","r","o","m"," ","a","c","c","e","s","s","i","n","g"," ","t","h","i","s"," ","p","a","g","e",".","'",",">> \o LF
  \o (* 157 *) Sp(20) \o <<"}","[","t","h","i","s",".","s","t","a","t","u","s","]">> \o LF
  \o (* 158 *) Sp(18) \o <<"}",",">> \o LF
  \o (* 159 *) Sp(16) \o <<"}",",">> \o LF
  \o (* 160 *) Sp(14) \o <<"}">> \o LF
  \o (* 161 *) Sp(14) \o <<"<","/","s","c","r","i","p","t",">">> \o LF
  \o (* 162 *) Sp(12)

ReactSource ==
     (* 167 *) LF
  \o (* 168 *) Sp(14) \o <<"i","m","p","o","r","t"," ","R","e","a","c","t"," ","f","r","o","m"," ","'","r","e","a","c","t","'","\\","n">> \o LF
  \o (* 169 *) Sp(14) \o <<"e","x","p","o","r","t"," ","d","e","f","a","u","l","t"," ","f","u","n","c","t","i","o","n"," ","E","r","r","o","r","P","a","g","e","(","{"," ","s","t","a","t","u","s"," ","}",")"," ","{">> \o LF
  \o (* 170 *) Sp(16) \o <<"c","o","n","s","t"," ","t","i","t","l","e"," ","="," ","{">> \o LF
  \o (* 171 *) Sp(18) \o <<"5","0","3",":"," ","'","5","0","3",":"," ","S","e","r","v","i","c","e"," ","U","n","a","v","a","i","l","a","b","l","e","'",",">> \o LF
  \o (* 172 *) Sp(18) \o <<"5","0","0",":"," ","'","5","0","0",":"," ","S","e","r","v","e","r"," ","E","r","r","o","r","'",",">> \o LF
  \o (* 173 *) Sp(18) \o <<"4","0","4",":"," ","'","4","0","4",":"," ","P","a","g","e"," ","N","o","t"," ","F","o","u","n","d","'",",">> \o LF
  \o (* 174 *) Sp(18) \o <<"4","0","3",":"," ","'","4","0","3",":"," ","F","o","r","b","i","d","d","e","n","'",",">> \o LF
  \o (* 175 *) Sp(16) \o <<"}","[","s","t","a","t","u","s","]","\\","n">> \o LF
  \o (* 176 *) Sp(16) \o <<"c","o","n","s","t"," ","d","e","s","c","r","i","p","t","i","o","n"," ","="," ","{">> \o LF
  \o (* 177 *) Sp(18) \o <<"5","0","3",":"," ","'","S","o","r","r","y",","," ","w","e"," ","a","r","e"," ","d","o","i","n","g"," ","s","o","m","e"," ","m","a","i","n","t","e","n","a","n","c","e","."," ","P","l","e","a","s","e"," ","c","h","e","c","k"," ","b","a","c","k"," ","s","o","o","n",".","'",",">> \o LF
  \o (* 178 *) Sp(18) \o <<"5","0","0",":"," ","'","W","h","o","o","p","s",","," ","s","o","m","e","t","h","i","n","g"," ","w","e","n","t"," ","w","r","o","n","g"," ","o","n"," ","o","u","r"," ","s","e","r","v","e","r","s",".","'",",">> \o LF
  \o (* 179 *) Sp(18) \o <<"4","0","4",":"," ","'","S","o","r","r","y",","," ","t","h","e"," ","p","a","g","e"," ","y","o","u"," ","a","r","e"," ","l","o","o","k","i","n","g"," ","f","o","r"," ","c","o","u","l","d"," ","n","o","t"," ","b","e"," ","f","o","u","n","d",".","'",",">> \o LF
  \o (* 180 *) Sp(18) \o <<"4","0","3",":"," ","'","S","o","r","r","y",","," ","y","o","u"," ","a","r","e"," ","f","o","r","b","i","d","d","e","n"," ","f","r","o","m"," ","a","c","c","e","s","s","i","n","g"," ","t","h","i","s"," ","p","a","g","e",".","'",",">> \o LF
  \o (* 181 *) Sp(16) \o <<"}","[","s","t","a","t","u","s","]","\\","n">> \o LF
  \o (* 182 *) Sp(16) \o <<"r","e","t","u","r","n"," ","(">> \o LF
  \o (* 183 *) Sp(18) \o <<"<","d","i","v",">">> \o LF
  \o (* 184 *) Sp(20) \o <<"<","H","1",">","{","t","i","t","l","e","}","<","/","H","1",">">> \o LF
  \o (* 185 *) Sp(20) \o <<"<","d","i","v",">","{","d","e","s","c","r","i","p","t","i","o","n","}","<","/","d","i","v",">">> \o LF
  \o (* 186 *) Sp(18) \o <<"<","/","d","i","v",">">> \o LF
  \o (* 187 *) Sp(16) \o <<")">> \o LF
  \o (* 188 *) Sp(14) \o <<"}">> \o LF
  \o (* 189 *) Sp(12)

SvelteSource ==
     (* 194 *) LF
  \o (* 195 *) Sp(14) \o <<"<","s","c","r","i","p","t",">">> \o LF
  \o (* 196 *) Sp(16) \o <<"e","x","p","o","r","t"," ","l","e","t"," ","s","t","a","t","u","s","\\","n">> \o LF
  \o (* 197 *) Sp(16) \o <<"$",":"," ","t","i","t","l","e"," ","="," ","{">> \o LF
  \o (* 198 *) Sp(18) \o <<"5","0","3",":"," ","'","5","0","3",":"," ","S","e","r","v","i","c","e"," ","U","n","a","v","a","i","l","a","b","l","e","'",",">> \o LF
  \o (* 199 *) Sp(18) \o <<"5","0","0",":"," ","'","5","0","0",":"," ","S","e","r","v","e","r"," ","E","r","r","o","r","'",",">> \o LF
  \o (* 200 *) Sp(18) \o <<"4","0","4",":"," ","'","4","0","4",":"," ","P","a","g","e"," ","N","o","t"," ","F","o","u","n","d","'",",">> \o LF
  \o (* 201 *) Sp(18) \o <<"4","0","3",":"," ","'","4","0","3",":"," ","F","o","r","b","i","d","d","e","n","'",",">> \o LF
  \o (* 202 *) Sp(16) \o <<"}","[","s","t","a","t","u","s","]","\\","n">> \o LF
  \o (* 203 *) Sp(16) \o <<"$",":"," ","d","e","s","c","r","i","p","t","i","o","n"," ","="," ","{">> \o LF
  \o (* 204 *) Sp(18) \o <<"5","0","3",":"," ","'","S","o","r","r","y",","," ","w","e"," ","a","r","e"," ","d","o","i","n","g"," ","s","o","m","e"," ","m","a","i","n","t","e","n","a","n","c","e","."," ","P","l","e","a","s","e"," ","c","h","e","c","k"," ","b","a","c","k"," ","s","o","o","n",".","'",",">> \o LF
  \o (* 205 *) Sp(18) \o <<"5","0","0",":"," ","'","W","h","o","o","p","s",","," ","s","o","m","e","t","h","i","n","g"," ","w","e","n","t"," ","w","r","o","n","g"," ","o","n"," ","o","u","r"," ","s","e","r","v","e","r","s",".","'",",">> \o LF
  \o (* 206 *) Sp(18) \o <<"4","0","4",":"," ","'","S","o","r","r","y",","," ","t","h","e"," ","p","a","g","e"," ","y","o","u"," ","a","r","e"," ","l","o","o","k","i","n","g"," ","f","o","r"," ","c","o","u","l","d"," ","n","o","t"," ","b","e"," ","f","o","u","n","d",".","'",",">> \o LF
  \o (* 207 *) Sp(18) \o <<"4","0","3",":"," ","'","S","o","r","r","y",","," ","y","o","u"," ","a","r","e"," ","f","o","r","b","i","d","d","e","n"," ","f","r","o","m"," ","a","c","c","e","s","s","i","n","g"," ","t","h","i","s"," ","p","a","g","e",".","'",",">> \o LF
  \o (* 208 *) Sp(16) \o <<"}","[","s","t","a","t","u","s","]">> \o LF
  \o (* 209 *) Sp(14) \o <<"<","/","s","c","r","i","p","t",">","\\","n">> \o LF
  \o (* 210 *) Sp(14) \o <<"<","d","i","v",">">> \o LF
  \o (* 211 *) Sp(16) \o <<"<","H","1",">","{","t","i","t","l","e","}","<","/","H","1",">">> \o LF
  \o (* 212 *) Sp(16) \o <<"<","d","i","v",">","{","d","e","s","c","r","i","p","t","i","o","n","}","<","/","d","i","v",">">> \o LF
  \o (* 213 *) Sp(14) \o <<"<","/","d","i","v",">">> \o LF
  \o (* 214 *) Sp(12)

(***************************************************************************)
(* Two characters a TLA+ string cannot hold, each standing as one element  *)
(* of a text: the backtick (U+0060) and the horizontal ellipsis (U+2026,   *)
(* written &hellip; in JSX).                                               *)
(***************************************************************************)
Backtick == <<"[U+0060]">>

Ellipsis == <<"[U+2026]">>

(***************************************************************************)
(* const meta = { title, links }                                           *)
(***************************************************************************)
\* Variant of ModuleMeta: the two links in the other order.
ModuleMetaSwapped ==
  [ title |-> <<"E","r","r","o","r"," ","h","a","n","d","l","i","n","g">>,
    links |-> << [ url  |-> <<"#","p","r","o","d","u","c","t","i","o","n">>,
                   name |-> <<"P","r","o","d","u","c","t","i","o","n">> ],
                 [ url  |-> <<"#","d","e","v","e","l","o","p","m","e","n","t">>,
                   name |-> <<"D","e","v","e","l","o","p","m","e","n","t">> ] >> ]

ModuleMeta ==
  [ title |-> <<"E","r","r","o","r"," ","h","a","n","d","l","i","n","g">>,
    links |-> << [ url  |-> <<"#","d","e","v","e","l","o","p","m","e","n","t">>,
                   name |-> <<"D","e","v","e","l","o","p","m","e","n","t">> ],
                 [ url  |-> <<"#","p","r","o","d","u","c","t","i","o","n">>,
                   name |-> <<"P","r","o","d","u","c","t","i","o","n">> ] >> ]

(***************************************************************************)
(* React elements.  An element is its type and its props; the children of  *)
(* a JSX element are props.children, here always a sequence of nodes.  A   *)
(* string child is a node of type "#text".                                 *)
(***************************************************************************)
El(type, props) == [type |-> type, props |-> props]

Text(s) == El("#text", [nodeValue |-> s])

Holding(type, children) == El(type, [children |-> children])

(***************************************************************************)
(* The example objects of the two TabbedCode elements.  code is the value  *)
(* of the tagged template; description is an ordinary string literal, in   *)
(* which \\ is one backslash.                                              *)
(***************************************************************************)
\* Variant of LaravelExample: the template without its dedent tag, an
\* ordinary template literal whose value is the cooked string.
LaravelExampleUntagged ==
  [ name        |-> <<"L","a","r","a","v","e","l">>,
    language    |-> <<"p","h","p">>,
    description |-> <<"E","x","t","e","n","d"," ","t","h","e"," ","r","e","n","d","e","r","(",")"," ","m","e","t","h","o","d"," ","i","n"," ","y","o","u","r"," ","A","p","p","\\","E","x","c","e","p","t","i","o","n","s","\\","H","a","n","d","l","e","r",".","p","h","p",".">>,
    code        |-> Cook(LaravelSource) ]

LaravelExample ==
  [ name        |-> <<"L","a","r","a","v","e","l">>,
    language    |-> <<"p","h","p">>,
    description |-> <<"E","x","t","e","n","d"," ","t","h","e"," ","r","e","n","d","e","r","(",")"," ","m","e","t","h","o","d"," ","i","n"," ","y","o","u","r"," ","A","p","p","\\","E","x","c","e","p","t","i","o","n","s","\\","H","a","n","d","l","e","r",".","p","h","p",".">>,
    code        |-> Tagged(LaravelSource) ]

\* Variant of RailsExample: the placeholder line left out of the template.
RailsExampleNoCode ==
  [ name     |-> <<"R","a","i","l","s">>,
    language |-> <<"r","u","b","y">>,
    code     |-> Tagged(LF \o Sp(12)) ]

RailsExample ==
  [ name     |-> <<"R","a","i","l","s">>,
    language |-> <<"r","u","b","y">>,
    code     |-> Tagged(RailsSource) ]

Vue2Example ==
  [ name     |-> <<"V","u","e"," ","2">>,
    language |-> <<"t","w","i","g">>,
    code     |-> Tagged(Vue2Source) ]

Vue3Example ==
  [ name     |-> <<"V","u","e"," ","3">>,
    language |-> <<"t","w","i","g">>,
    code     |-> Tagged(Vue3Source) ]

ReactExample ==
  [ name     |-> <<"R","e","a","c","t">>,
    language |-> <<"j","s","x">>,
    code     |-> Tagged(ReactSource) ]

SvelteExample ==
  [ name     |-> <<"S","v","e","l","t","e">>,
    language |-> <<"h","t","m","l">>,
    code     |-> Tagged(SvelteSource) ]

ServerExamples == <<LaravelExample, RailsExample>>

ErrorComponentExamples == <<Vue2Example, Vue3Example, ReactExample, SvelteExample>>

(***************************************************************************)
(* The Page component: a function of no parameters, so the props React     *)
(* calls it with are not read.  It returns a fragment of twelve children.  *)
(***************************************************************************)
\* Variant of Heading: the title spelled differently from meta.title.
HeadingRetitled == Holding("H1", <<Text(<<"E","r","r","o","r"," ","H","a","n","d","l","i","n","g">>)>>)

Heading == Holding("H1", <<Text(<<"E","r","r","o","r"," ","h","a","n","d","l","i","n","g">>)>>)

DevelopmentSection ==
  << Holding("H2", <<Text(<<"D","e","v","e","l","o","p","m","e","n","t">>)>>),
     Holding("P",
       << Text(<<"O","n","e"," ","o","f"," ","t","h","e"," ","n","i","c","e"," ","t","h","i","n","g","s"," ","a","b","o","u","t"," ","w","o","r","k","i","n","g"," ","w","i","t","h"," ","a"," ","s","e","r","v","e","r","-","s","i","d","e"," ","f","r","a","m","e","w","o","r","k"," ","i","s"," ","t","h","e"," ","b","u","i","l","t","-","i","n"," ","e","x","c","e","p","t","i","o","n"," ","h","a","n","d","l","i","n","g"," ","y","o","u"," ","g","e","t"," ","f","o","r"," ","f","r","e","e","."," ","F","o","r"," ","e","x","a","m","p","l","e",","," ","L","a","r","a","v","e","l"," ","s","h","i","p","s"," ","w","i","t","h"," ">>),
          El("A", [ href     |-> "https://github.com/facade/ignition",
                    children |-> <<Text(<<"I","g","n","i","t","i","o","n">>)>> ]),
          Text(<<","," ","a"," ","b","e","a","u","t","i","f","u","l"," ","e","r","r","o","r"," ","r","e","p","o","r","t","i","n","g"," ","t","o","o","l"," ","w","h","i","c","h"," ","d","i","s","p","l","a","y","s"," ","a"," ","n","i","c","e","l","y"," ","f","o","r","m","a","t","t","e","d"," ","s","t","a","c","k"," ","t","r","a","c","e"," ","i","n"," ","l","o","c","a","l"," ","d","e","v","e","l","o","p","m","e","n","t",".">>) >>),
     Holding("P",
       << Text(<<"T","h","e"," ","c","h","a","l","l","e","n","g","e"," ","i","s",","," ","i","f"," ","y","o","u","'","r","e"," ","m","a","k","i","n","g"," ","a","n"," ","X","H","R"," ","r","e","q","u","e","s","t"," ","(","w","h","i","c","h"," ","I","n","e","r","t","i","a"," ","d","o","e","s",")",","," ","a","n","d"," ","y","o","u"," ","h","i","t"," ","a"," ","s","e","r","v","e","r","-","s","i","d","e"," ","e","r","r","o","r",","," ","y","o","u","'","r","e"," ","t","y","p","i","c","a","l","l","y"," ","l","e","f","t"," ","d","i","g","g","i","n","g"," ","t","h","r","o","u","g","h"," ","t","h","e"," ","n","e","t","w","o","r","k"," ","t","a","b"," ","i","n"," ","y","o","u","r"," ","b","r","o","w","s","e","r","'","s"," ","d","e","v","t","o","o","l","s",".">>) >>),
     Holding("P",
       << Text(<<"I","n","e","r","t","i","a"," ","s","o","l","v","e","s"," ","t","h","i","s"," ","b","y"," ","s","h","o","w","i","n","g"," ","a","l","l"," ","n","o","n","-","I","n","e","r","t","i","a"," ","r","e","s","p","o","n","s","e","s"," ","i","n"," ","a"," ","m","o","d","a","l","."," ","M","e","a","n","i","n","g"," ","y","o","u"," ","g","e","t"," ","t","h","e"," ","s","a","m","e"," ","b","e","a","u","t","i","f","u","l"," ","e","r","r","o","r","-","r","e","p","o","r","t","i","n","g",","," ","e","v","e","n"," ","t","h","o","u","g","h"," ","y","o","u","'","v","e"," ","m","a","d","e"," ","t","h","a","t"," ","r","e","q","u","e","s","t"," ","o","v","e","r"," ","X","H","R","!">>) >>),
     El("div",
        [ className |-> "my-6 relative rounded overflow-hidden bg-gray-500",
          style     |-> [paddingTop |-> "80.5%"],
          children  |->
            << El("div",
                  [ className |-> "absolute inset-0 w-full h-full flex items-center justify-center text-sm",
                    children  |-> <<Text(<<"L","o","a","d","i","n","g">> \o Ellipsis)>> ]),
               El("iframe",
                  [ className |-> "absolute inset-0 w-full h-full",
                    src       |-> "https://player.vimeo.com/video/363562630?autoplay=1&loop=1&muted=1&background=1" ]) >> ]),
     Holding("Notice",
       << Text(<<"N","o","t","e",","," ","t","h","e"," ","m","o","d","a","l"," ","b","e","h","a","v","i","o","u","r"," ","i","s"," ","o","n","l","y"," ","i","n","t","e","n","d","e","d"," ","f","o","r"," ","d","e","v","e","l","o","p","m","e","n","t"," ","p","u","r","p","o","s","e","s",".">>) >>) >>

ProductionSection ==
  << Holding("H2", <<Text(<<"P","r","o","d","u","c","t","i","o","n">>)>>),
     Holding("P",
       << Text(<<"I","n"," ","p","r","o","d","u","c","t","i","o","n"," ","y","o","u","'","l","l"," ","w","a","n","t"," ","t","o"," ","r","e","t","u","r","n"," ","a"," ","p","r","o","p","e","r"," ","I","n","e","r","t","i","a"," ","e","r","r","o","r"," ","r","e","s","p","o","n","s","e"," ","i","n","s","t","e","a","d"," ","o","f"," ","r","e","l","y","i","n","g"," ","o","n"," ","t","h","e"," ","m","o","d","a","l"," ","b","e","h","a","v","i","o","u","r","."," ","T","o"," ","d","o"," ","t","h","i","s"," ","y","o","u","'","l","l"," ","n","e","e","d"," ","t","o"," ","u","p","d","a","t","e"," ","y","o","u","r"," ","f","r","a","m","e","w","o","r","k","'","s"," ","d","e","f","a","u","l","t"," ","e","x","c","e","p","t","i","o","n"," ","h","a","n","d","l","e","r"," ","t","o"," ","r","e","t","u","r","n"," ","a"," ","c","u","s","t","o","m"," ","e","r","r","o","r"," ","p","a","g","e",".">>) >>),
     El("TabbedCode", [examples |-> ServerExamples]),
     Holding("P",
       << Text(<<"N","o","t","i","c","e"," ","h","o","w"," ","w","e","'","r","e"," ","r","e","t","u","r","n","i","n","g"," ","a","n"," ">> \o Backtick \o <<"E","r","r","o","r">> \o Backtick \o <<" ","p","a","g","e"," ","c","o","m","p","o","n","e","n","t"," ","i","n"," ","t","h","e"," ","e","x","a","m","p","l","e"," ","a","b","o","v","e","."," ","Y","o","u","'","l","l"," ","n","e","e","d"," ","t","o"," ","a","c","t","u","a","l","l","y"," ","c","r","e","a","t","e"," ","t","h","i","s","."," ","H","e","r","e","'","s"," ","a","n"," ","e","x","a","m","p","l","e"," ","e","r","r","o","r"," ","p","a","g","e"," ","c","o","m","p","o","n","e","n","t"," ","y","o","u"," ","c","a","n"," ","u","s","e"," ","a","s"," ","a"," ","s","t","a","r","t","i","n","g"," ","p","o","i","n","t",".">>) >>),
     El("TabbedCode", [examples |-> ErrorComponentExamples]) >>

\* Variant of Page: a component that reads its props and shows them.
PageUsingProps(props) ==
  Holding("Fragment",
          <<Heading>> \o DevelopmentSection \o ProductionSection
            \o <<Holding("P", <<Text(<<props.errors>>)>>)>>)

\* Variant of Page: the Production section placed before Development.
PageProductionFirst(props) ==
  Holding("Fragment", <<Heading>> \o ProductionSection \o DevelopmentSection)

Page(props) ==
  Holding("Fragment", <<Heading>> \o DevelopmentSection \o ProductionSection)

(***************************************************************************)
(* Every call of Page evaluates its array and object literals anew: two    *)
(* arrays and six example objects per call.  Objects are told apart by a   *)
(* reference number; next is the first number not yet in use.  The module  *)
(* itself creates four objects when it loads: meta, meta.links and the two *)
(* link objects.                                                           *)
(***************************************************************************)
ModuleObjects == {1, 2, 3, 4}

\* Variant of PageObjects: the literals hoisted out of Page, evaluated once
\* when the module loads, so that every call returns the same objects.
HoistedObjects(next) ==
  [ serverExamples         |-> 5,
    Laravel                |-> 6,
    Rails                  |-> 7,
    errorComponentExamples |-> 8,
    Vue2                   |-> 9,
    Vue3                   |-> 10,
    React                  |-> 11,
    Svelte                 |-> 12 ]

PageObjects(next) ==
  [ serverExamples         |-> next,
    Laravel                |-> next + 1,
    Rails                  |-> next + 2,
    errorComponentExamples |-> next + 3,
    Vue2                   |-> next + 4,
    Vue3                   |-> next + 5,
    React                  |-> next + 6,
    Svelte                 |-> next + 7 ]

Refs(objects) == {objects[k] : k \in DOMAIN objects}

(***************************************************************************)
(* Page.layout = page => <Layout children={page} meta={meta} />            *)
(***************************************************************************)
\* Variant of PageLayout: meta spread into the props instead of passed whole.
LayoutSpreadingMeta(page, m) ==
  El("Layout", [children |-> page, title |-> m.title, links |-> m.links])

PageLayout(page, m) == El("Layout", [children |-> page, meta |-> m])

(***************************************************************************)
(* The code the examples document.                                         *)
(*                                                                         *)
(* render() of the Laravel example: env is the application environment,    *)
(* response the value of parent::render($request, $e).                     *)
(***************************************************************************)
\* Variant of render: the environment not consulted.
renderInEveryEnvironment(env, response) ==
  IF response.status \in {500, 503, 404, 403}
  THEN [ kind      |-> "inertia",
         component |-> "Error",
         props     |-> [status |-> response.status],
         status    |-> response.status ]
  ELSE IF response.status = 419
  THEN [ kind    |-> "redirect back",
         flash   |-> [message |-> "The page expired, please try again."] ]
  ELSE response

render(env, response) ==
  IF env \notin {"local", "testing"} /\ response.status \in {500, 503, 404, 403}
  THEN [ kind      |-> "inertia",
         component |-> "Error",
         props     |-> [status |-> response.status],
         status    |-> response.status ]
  ELSE IF response.status = 419
  THEN [ kind    |-> "redirect back",
         flash   |-> [message |-> "The page expired, please try again."] ]
  ELSE response

\* obj[key] of JavaScript: undefined when obj has no such key.
Undefined == "[undefined]"

Lookup(obj, key) == IF key \in DOMAIN obj THEN obj[key] ELSE Undefined

Vue2Title ==
  503 :> "503: Service Unavailable" @@
  500 :> "500: Server Error" @@
  404 :> "404: Page Not Found" @@
  403 :> "403: Forbidden"

Vue2Description ==
  503 :> "Sorry, we are doing some maintenance. Please check back soon." @@
  500 :> "Whoops, something went wrong on our servers." @@
  404 :> "Sorry, the page you are looking for could not be found." @@
  403 :> "Sorry, you are forbidden from accessing this page."

Vue3Title ==
  503 :> "503: Service Unavailable" @@
  500 :> "500: Server Error" @@
  404 :> "404: Page Not Found" @@
  403 :> "403: Forbidden"

Vue3Description ==
  503 :> "Sorry, we are doing some maintenance. Please check back soon." @@
  500 :> "Whoops, something went wrong on our servers." @@
  404 :> "Sorry, the page you are looking for could not be found." @@
  403 :> "Sorry, you are forbidden from accessing this page."

\* Variant of ReactTitle: the entry for 403 left out.
ReactTitleWithout403 ==
  503 :> "503: Service Unavailable" @@
  500 :> "500: Server Error" @@
  404 :> "404: Page Not Found"

ReactTitle ==
  503 :> "503: Service Unavailable" @@
  500 :> "500: Server Error" @@
  404 :> "404: Page Not Found" @@
  403 :> "403: Forbidden"

ReactDescription ==
  503 :> "Sorry, we are doing some maintenance. Please check back soon." @@
  500 :> "Whoops, something went wrong on our servers." @@
  404 :> "Sorry, the page you are looking for could not be found." @@
  403 :> "Sorry, you are forbidden from accessing this page."

SvelteTitle ==
  503 :> "503: Service Unavailable" @@
  500 :> "500: Server Error" @@
  404 :> "404: Page Not Found" @@
  403 :> "403: Forbidden"

SvelteDescription ==
  503 :> "Sorry, we are doing some maintenance. Please check back soon." @@
  500 :> "Whoops, something went wrong on our servers." @@
  404 :> "Sorry, the page you are looking for could not be found." @@
  403 :> "Sorry, you are forbidden from accessing this page."

Frameworks == {"Vue 2", "Vue 3", "React", "Svelte"}

TitleOf(framework) ==
  CASE framework = "Vue 2"  -> Vue2Title
    [] framework = "Vue 3"  -> Vue3Title
    [] framework = "React"  -> ReactTitle
    [] framework = "Svelte" -> SvelteTitle

DescriptionOf(framework) ==
  CASE framework = "Vue 2"  -> Vue2Description
    [] framework = "Vue 3"  -> Vue3Description
    [] framework = "React"  -> ReactDescription
    [] framework = "Svelte" -> SvelteDescription

\* The names each example's script imports or declares.
Declared(framework) ==
  CASE framework = "React"  -> {"React", "ErrorPage", "status", "title", "description"}
    [] framework = "Svelte" -> {"status", "title", "description"}
    [] OTHER                -> {}

\* Every example writes its heading as <H1>.  In JSX and in Svelte markup a
\* capitalised tag is a reference to the variable of that name; in a Vue
\* template it is a component name that, with no such component registered,
\* falls back to the element of that name.
TagIsReference(framework) == framework \in {"React", "Svelte"}

\* The Error page component of a framework, given the status prop.  The two
\* lookups are made first; then the markup is built, the title in the H1
\* and the description in the div.  Where H1 is a reference to a variable
\* the example does not declare, building it throws and nothing is shown.
ErrorPage(framework, status) ==
  [ framework   |-> framework,
    status      |-> status,
    title       |-> Lookup(TitleOf(framework), status),
    description |-> Lookup(DescriptionOf(framework), status),
    outcome     |-> IF TagIsReference(framework) /\ "H1" \notin Declared(framework)
                    THEN "ReferenceError: H1 is not defined"
                    ELSE "rendered" ]

(***************************************************************************)
(* The state machine.                                                      *)
(***************************************************************************)
MaxRenders == 2

\* Props React may call Page with, and elements Page.layout may be given.
PropsGiven == {[errors |-> "none"], [errors |-> "some"]}

PagesGiven == {El("Page", p) : p \in PropsGiven} \cup {Holding("div", <<>>)}

Environments == {"local", "testing", "staging", "production"}

StatusCodes == {200, 302, 403, 404, 419, 422, 500, 503}

Nothing == [kind |-> "nothing"]

VARIABLES
  meta,      \* the module-level meta object
  nextRef,   \* the first object reference not yet in use
  renders,   \* the calls of Page so far: props given, element returned, objects created
  layout,    \* the last call of Page.layout: element given, element returned
  handled,   \* the last exception the documented handler rendered
  shown      \* the Error page component shown for it, if any

vars == <<meta, nextRef, renders, layout, handled, shown>>

\* The module has loaded: meta and its links exist, nothing was rendered.
Init ==
  /\ meta = ModuleMeta
  /\ nextRef = Max(ModuleObjects) + 1
  /\ renders = <<>>
  /\ layout = Nothing
  /\ handled = Nothing
  /\ shown = Nothing

\* React calls Page(props).
Render(props) ==
  /\ Len(renders) < MaxRenders
  /\ renders' = Append(renders, [ props   |-> props,
                                  element |-> Page(props),
                                  objects |-> PageObjects(nextRef) ])
  /\ nextRef' = nextRef + Cardinality(DOMAIN PageObjects(nextRef))
  /\ UNCHANGED <<meta, layout, handled, shown>>

\* The router calls Page.layout(page).
Layout(page) ==
  /\ layout' = [kind |-> "layout", page |-> page, element |-> PageLayout(page, meta)]
  /\ UNCHANGED <<meta, nextRef, renders, handled, shown>>

\* The documented handler renders an exception whose parent response has
\* the given status, in the given environment.
Handle(env, status) ==
  /\ handled' = [ kind     |-> "handled",
                  env      |-> env,
                  parent   |-> [kind |-> "parent", status |-> status],
                  response |-> render(env, [kind |-> "parent", status |-> status]) ]
  /\ shown' = Nothing
  /\ UNCHANGED <<meta, nextRef, renders, layout>>

\* The client calls the component an Inertia response names, with its props:
\* the page is shown, or the component throws.
Show(framework) ==
  /\ handled.kind = "handled"
  /\ handled.response.kind = "inertia"
  /\ handled.response.component = "Error"
  /\ LET page == ErrorPage(framework, handled.response.props.status)
     IN  shown' = [ kind |-> IF page.outcome = "rendered" THEN "shown" ELSE "threw",
                    page |-> page ]
  /\ UNCHANGED <<meta, nextRef, renders, layout, handled>>

Next ==
  \/ \E props \in PropsGiven : Render(props)
  \/ \E page \in PagesGiven : Layout(page)
  \/ \E env \in Environments, status \in StatusCodes : Handle(env, status)
  \/ \E framework \in Frameworks : Show(framework)

Spec == Init /\ [][Next]_vars

(***************************************************************************)
(* Reading an element tree.                                                *)
(***************************************************************************)
RECURSIVE Nodes(_), NodesOf(_)

\* The nodes of a tree in document order.
Nodes(node) ==
  <<node>> \o (IF "children" \in DOMAIN node.props
               THEN NodesOf(node.props.children)
               ELSE <<>>)

NodesOf(children) ==
  IF Len(children) = 0 THEN <<>>
  ELSE Nodes(Head(children)) \o NodesOf(Tail(children))

OfType(element, type) == SelectSeq(Nodes(element), LAMBDA n : n.type = type)

\* The text of an element whose only child is a string.
TextOf(element) == element.props.children[1].props.nodeValue

HasOnlyText(element) ==
  /\ Len(element.props.children) = 1
  /\ element.props.children[1].type = "#text"

\* The example objects a rendered page hands to its TabbedCode elements,
\* in document order.
ExamplesOf(element) ==
  LET tabs == OfType(element, "TabbedCode")
  IN  [k \in 1..Len(tabs) |-> tabs[k].props.examples]

Rendered == {renders[i].element : i \in DOMAIN renders}

(***************************************************************************)
(* C1.  meta.links holds exactly two entries: first Development, whose     *)
(* target is #development, then Production, whose target is #production.   *)
(***************************************************************************)
LinksAreDevelopmentThenProduction ==
  /\ Len(meta.links) = 2
  /\ \A k \in 1..Len(meta.links) : DOMAIN meta.links[k] = {"url", "name"}
  /\ meta.links[1].name = <<"D","e","v","e","l","o","p","m","e","n","t">>
  /\ meta.links[1].url  = <<"#","d","e","v","e","l","o","p","m","e","n","t">>
  /\ meta.links[2].name = <<"P","r","o","d","u","c","t","i","o","n">>
  /\ meta.links[2].url  = <<"#","p","r","o","d","u","c","t","i","o","n">>

\* The page was rendered and laid out, and the layout got the two links.
LinksSeenByLayout ==
  /\ Len(renders) > 0
  /\ layout.kind = "layout"
  /\ Len(layout.element.props.meta.links) = 2

(***************************************************************************)
(* C2.  As claimed: the Laravel example's rendered code text is the text   *)
(* between the backticks of lines 50-73, character for character.          *)
(***************************************************************************)
LaravelCodeOf(element) == ExamplesOf(element)[1][1].code

LaravelCodeIsSourceText ==
  \A e \in Rendered : LaravelCodeOf(e) = LaravelSource

\* The lines of a text: the pieces between its line feeds.
Lines(s) ==
  LET feeds == SelectSeq([i \in 1..Len(s) |-> i], LAMBDA i : s[i] = "\n")
      cuts  == <<0>> \o feeds \o <<Len(s) + 1>>
  IN  [k \in 1..(Len(cuts) - 1) |-> SubSeq(s, cuts[k] + 1, cuts[k + 1] - 1)]

RECURSIVE JoinLines(_)

JoinLines(lines) ==
  IF Len(lines) = 0 THEN <<>>
  ELSE IF Len(lines) = 1 THEN lines[1]
  ELSE lines[1] \o LF \o JoinLines(Tail(lines))

(***************************************************************************)
(* C2, amended.  The rendered code text is the source text of lines 51-72  *)
(* (the line break after the opening backtick and the last line break with *)
(* the indentation before the closing backtick are gone), each line        *)
(* without its first 14 characters, the common indentation, and with its   *)
(* escapes processed: \n a line feed, \\ one backslash.  Everything else   *)
(* appears unchanged and in order.                                         *)
(***************************************************************************)
LaravelCodeIsDedentedSource ==
  LET source == Lines(LaravelSource)
      inner  == [k \in 1..(Len(source) - 2) |->
                   Cook(SubSeq(source[k + 1], 15, Len(source[k + 1])))]
  IN  \A e \in Rendered : LaravelCodeOf(e) = JoinLines(inner)

\* A rendered page whose Laravel code text starts at the source's first
\* word and is shorter than the source text.
LaravelCodeRendered ==
  \E e \in Rendered :
    /\ SubSeq(LaravelCodeOf(e), 1, 3) = <<"u","s","e">>
    /\ Len(LaravelCodeOf(e)) < Len(LaravelSource)

(***************************************************************************)
(* C3.  As claimed: no render creates an example array or example object;  *)
(* every render sees objects that exist since the module loaded.           *)
(***************************************************************************)
ExamplesCreatedAtModuleLoad ==
  \A i \in DOMAIN renders : Refs(renders[i].objects) \subseteq ModuleObjects

(***************************************************************************)
(* C3, amended.  meta is created once, when the module loads, and never    *)
(* changes.  Each render of Page creates its two example arrays and six    *)
(* example objects anew: eight objects that are neither among the module's *)
(* nor among those of another render.  Their content is the same in every  *)
(* render.                                                                 *)
(***************************************************************************)
MetaOnceExamplesPerRender ==
  /\ meta = ModuleMeta
  /\ \A i \in DOMAIN renders :
       /\ Cardinality(Refs(renders[i].objects)) = 8
       /\ Refs(renders[i].objects) \cap ModuleObjects = {}
       /\ \A j \in DOMAIN renders :
            /\ i # j => Refs(renders[i].objects) \cap Refs(renders[j].objects) = {}
            /\ ExamplesOf(renders[i].element) = ExamplesOf(renders[j].element)

\* Two renders, each with objects of its own and the same examples.
TwoRendersTwoSetsOfExamples ==
  /\ Len(renders) >= 2
  /\ Refs(renders[1].objects) # Refs(renders[2].objects)
  /\ ExamplesOf(renders[1].element) = ExamplesOf(renders[2].element)
  /\ Len(ExamplesOf(renders[2].element)) = 2

(***************************************************************************)
(* C4.  Every example object of both TabbedCode elements has a non-empty   *)
(* name, language and code; description is the only field that may be      *)
(* absent, and is non-empty when present.                                  *)
(***************************************************************************)
ExamplesHaveDisplayStrings ==
  \A e \in Rendered :
    \A k \in DOMAIN ExamplesOf(e) :
      \A n \in DOMAIN ExamplesOf(e)[k] :
        LET example == ExamplesOf(e)[k][n]
        IN  /\ {"name", "language", "code"} \subseteq DOMAIN example
            /\ DOMAIN example \subseteq {"name", "language", "code", "description"}
            /\ Len(example.name) > 0
            /\ Len(example.language) > 0
            /\ Len(example.code) > 0
            /\ "description" \in DOMAIN example => Len(example.description) > 0

\* A rendered page with all six examples, one with a description (Laravel)
\* and one without (Rails).
ExamplesWithAndWithoutDescription ==
  \E e \in Rendered :
    /\ Len(ExamplesOf(e)[1]) = 2
    /\ Len(ExamplesOf(e)[2]) = 4
    /\ "description" \in DOMAIN ExamplesOf(e)[1][1]
    /\ "description" \notin DOMAIN ExamplesOf(e)[1][2]
    /\ ExamplesOf(e)[1][2].code = <<"#"," ","t","o","d","o">>

(***************************************************************************)
(* C5.  Every call of Page, whatever props it is given and whatever was    *)
(* rendered before, returns the same element tree: the heading, the        *)
(* sections, the notice, the iframe and the two TabbedCode elements with   *)
(* the same examples in the same order.  It leaves meta as it was.         *)
(***************************************************************************)
ChildTypes(element) ==
  [k \in 1..Len(element.props.children) |-> element.props.children[k].type]

RenderIsDeterministic ==
  /\ meta = ModuleMeta
  /\ \A i, j \in DOMAIN renders : renders[i].element = renders[j].element
  /\ \A e \in Rendered :
       /\ e.type = "Fragment"
       /\ ChildTypes(e) = << "H1", "H2", "P", "P", "P", "div", "Notice",
                             "H2", "P", "TabbedCode", "P", "TabbedCode" >>
       /\ Len(OfType(e, "iframe")) = 1

\* Two renders with different props and the same element.
RenderedTwiceWithDifferentProps ==
  /\ Len(renders) >= 2
  /\ renders[1].props # renders[2].props
  /\ renders[1].element = renders[2].element

(***************************************************************************)
(* C6.  The rendered page has exactly one H1; its text is 'Error handling' *)
(* and equals meta.title.                                                  *)
(***************************************************************************)
OneHeadingWithTheTitle ==
  \A e \in Rendered :
    LET h == OfType(e, "H1")
    IN  /\ Len(h) = 1
        /\ HasOnlyText(h[1])
        /\ TextOf(h[1]) = <<"E","r","r","o","r"," ","h","a","n","d","l","i","n","g">>
        /\ TextOf(h[1]) = meta.title

\* A rendered page whose first child is the H1.
HeadingRendered ==
  \E e \in Rendered :
    /\ e.props.children[1].type = "H1"
    /\ Len(TextOf(e.props.children[1])) = Len(meta.title)

(***************************************************************************)
(* C7.  Page.layout(page) returns a Layout element whose props are exactly *)
(* children, the element given, and meta, the module's meta object; meta   *)
(* itself stays as loaded.                                                 *)
(***************************************************************************)
LayoutWrapsPageWithMeta ==
  layout.kind = "layout" =>
    /\ layout.element.type = "Layout"
    /\ DOMAIN layout.element.props = {"children", "meta"}
    /\ layout.element.props.children = layout.page
    /\ layout.element.props.meta = meta
    /\ meta = ModuleMeta
    /\ layout.page \in PagesGiven

\* Page.layout was called with a Page element.
PageLaidOut ==
  /\ layout.kind = "layout"
  /\ layout.page.type = "Page"
  /\ layout.element.props.children.type = "Page"

(***************************************************************************)
(* C8.  The documented handler returns the Inertia 'Error' page with the   *)
(* parent response's status, as prop and as HTTP status, exactly when the  *)
(* environment is neither local nor testing and the status is one of 500,  *)
(* 503, 404, 403; otherwise, when the status is 419, it redirects back     *)
(* with the 'page expired' message, in every environment; in all other     *)
(* cases it returns the parent response unchanged.                         *)
(***************************************************************************)
HandlerReturnsErrorPageInProduction ==
  handled.kind = "handled" =>
    LET status   == handled.parent.status
        response == handled.response
        erring   == /\ handled.env # "local"
                    /\ handled.env # "testing"
                    /\ status \in {500, 503, 404, 403}
    IN  /\ response.kind = "inertia" <=> erring
        /\ response.kind = "redirect back" <=> (~erring /\ status = 419)
        /\ response.kind = "parent" <=> (~erring /\ status # 419)
        /\ response.kind = "inertia" =>
             /\ response.component = "Error"
             /\ response.props = [status |-> status]
             /\ response.status = status
        /\ response.kind = "redirect back" =>
             response.flash = [message |-> "The page expired, please try again."]
        /\ response.kind = "parent" => response = handled.parent

\* A 404 in production was answered with the Error page.
ErrorPageReturnedInProduction ==
  /\ handled.kind = "handled"
  /\ handled.env = "production"
  /\ handled.parent.status = 404
  /\ handled.response.kind = "inertia"

(***************************************************************************)
(* C9.  Every status for which the handler renders the 'Error' component   *)
(* has a title and a description in each of the four component examples,   *)
(* the four agree on both, and no component is ever called with a status   *)
(* whose lookup is undefined (whether or not the component then renders).  *)
(***************************************************************************)
ErrorStatuses ==
  {s \in StatusCodes :
     \E env \in Environments : render(env, [kind |-> "parent", status |-> s]).kind = "inertia"}

ExamplesAgreeOnStatuses ==
  /\ \A s \in ErrorStatuses : \A f, g \in Frameworks :
       /\ ErrorPage(f, s).title # Undefined
       /\ ErrorPage(f, s).description # Undefined
       /\ ErrorPage(f, s).title = ErrorPage(g, s).title
       /\ ErrorPage(f, s).description = ErrorPage(g, s).description
  /\ shown.kind \in {"shown", "threw"} =>
       /\ shown.page.status \in ErrorStatuses
       /\ shown.page.title # Undefined
       /\ shown.page.description # Undefined
  /\ (handled.kind = "handled" /\ handled.response.kind = "inertia") =>
       handled.response.props.status # 419

\* The Vue 3 component shown for a 403.
ForbiddenShown ==
  /\ shown.kind = "shown"
  /\ shown.page.framework = "Vue 3"
  /\ shown.page.status = 403
  /\ shown.page.title = "403: Forbidden"
  /\ shown.page.outcome = "rendered"

(***************************************************************************)
(* C10.  The links of meta and the H2 headings of the page correspond one  *)
(* to one and in order: the k-th heading's text is the k-th link's name,   *)
(* and in lower case it is the link's target without the '#'.              *)
(***************************************************************************)
UpperCase == <<"A","B","C","D","E","F","G","H","I","J","K","L","M","N","O","P","Q","R","S","T","U","V","W","X","Y","Z">>

LowerCase == <<"a","b","c","d","e","f","g","h","i","j","k","l","m","n","o","p","q","r","s","t","u","v","w","x","y","z">>

ToLowerCase(s) ==
  [i \in 1..Len(s) |->
     IF \E k \in 1..Len(UpperCase) : UpperCase[k] = s[i]
     THEN LowerCase[CHOOSE k \in 1..Len(UpperCase) : UpperCase[k] = s[i]]
     ELSE s[i]]

LinksMatchSections ==
  \A e \in Rendered :
    LET h == OfType(e, "H2")
    IN  /\ Len(h) = Len(meta.links)
        /\ \A k \in 1..Len(h) :
             /\ HasOnlyText(h[k])
             /\ TextOf(h[k]) = meta.links[k].name
             /\ Head(meta.links[k].url) = "#"
             /\ ToLowerCase(TextOf(h[k])) = Tail(meta.links[k].url)
             /\ \A l \in 1..Len(h) : TextOf(h[l]) = TextOf(h[k]) => l = k

\* A rendered page whose two H2 headings are Development, then Production.
SectionsRendered ==
  \E e \in Rendered :
    /\ Len(OfType(e, "H2")) = 2
    /\ TextOf(OfType(e, "H2")[1]) = <<"D","e","v","e","l","o","p","m","e","n","t">>
    /\ TextOf(OfType(e, "H2")[2]) = <<"P","r","o","d","u","c","t","i","o","n">>

=============================================================================
